---- MODULE Spec2Model ----
(***************************************************************************)
(* Model of the score-review repository's PDF acquisition pipeline (the    *)
(* three variants of POST /api/process-pdf) and of its caller, the         *)
(* approval action of the review page; of POST /api/sheets with its        *)
(* ApprovalQueue and the spreadsheet; of the review page with several      *)
(* handlers in flight; and of the editions pages with PATCH /api/editions. *)
(*                                                                         *)
(* Strings built by template literals are modelled as sequences of their   *)
(* pieces, so that the object key and the public URL are concatenations    *)
(* that can be compared piece by piece.  Byte buffers are sequences whose  *)
(* length is byteLength.                                                   *)
(***************************************************************************)
EXTENDS Integers, Sequences, FiniteSets, TLC

\* ---------------------------------------------------------------- bounds
MaxScores == 3
MaxDocLen == 2
NumPayloads == 2
MaxRequests == 3
MaxRows == 2
MaxClicks == 3

\* ------------------------------------------------------- program constants
BUCKET_NAME == "tonebase-emails"
REGION == "us-east-1"
APPROVED_PREFIX == "Q2_2021/Q2W4/Scores/general"

Variants == {"connect", "launch", "playwright"}

PIECES_SHEET == "Pieces"
APPROVED_EDITIONS_SHEET == "Approved Editions"

\* addPieceIfNotExists: const maxRetries = 3
maxRetries == 3

\* ------------------------------------------------------------ input domains
\* URLs are sequences of string pieces; the empty string is the empty sequence.
UrlA == <<"https://imslp.org/wiki/A">>
UrlB == <<"https://imslp.org/wiki/B">>
Slug1 == "bach-bwv846"
Slug2 == "chopin-op28"
Slugs == {Slug1, Slug2}

\* The i-th score of the review list: two sources share a slug, one score has
\* no slug, one has no URL.
ScoreAt(i) ==
  [id |-> i,
   scoreUrl |-> IF i % 5 = 0 THEN <<>> ELSE IF i % 2 = 1 THEN UrlA ELSE UrlB,
   slug |-> IF i % 4 = 0 THEN "" ELSE IF i % 4 = 3 THEN Slug2 ELSE Slug1]

InitialScores == [i \in 1..MaxScores |-> ScoreAt(i)]

\* A review list of the two scores whose fields are missing.
IncompleteScores == <<ScoreAt(4), ScoreAt(5)>>

\* The lists /api/scores may answer with.
ScoreLists == {InitialScores, IncompleteScores}

\* Byte buffers: the empty buffer and one-byte buffers with distinct content.
Bodies == {<<>>} \cup {<<b>> : b \in 1..NumPayloads}

PdfType == "application/pdf"
HtmlType == "text/html"

\* contentType.includes('application/pdf')
IsPdfType(ct) == ct = PdfType

\* Responses of the navigation to the source URL.  The body is read only in
\* the direct-PDF branch, so HTML responses carry one representative body.
Responses ==
  [status : {200, 404}, contentType : {PdfType}, body : Bodies]
    \cup [status : {200, 404}, contentType : {HtmlType}, body : {<<1>>}]

\* Responses of the navigation to the located download link.
PdfResponses == [status : {200}, contentType : {PdfType, HtmlType}, body : Bodies]
NoResponse == [status |-> 0, contentType |-> "", body |-> <<>>]

\* ------------------------------------------------------ documents and URLs
\* A URL found in a page: whether it is an https://....pdf URL, and which.
NoUrl == [pdf |-> FALSE, n |-> 0]
PdfUrl(k) == [pdf |-> TRUE, n |-> k]
PageUrl == [pdf |-> FALSE, n |-> 9]

\* Elements of a page, in document order.
Anchor(h, d) == [tag |-> "a", href |-> h, dataId |-> d, url |-> NoUrl]
JsonUrl(u) == [tag |-> "json", href |-> NoUrl, dataId |-> NoUrl, url |-> u]
Redirect(u) == [tag |-> "redirect", href |-> NoUrl, dataId |-> NoUrl, url |-> u]

Elements ==
  {Anchor(PdfUrl(1), NoUrl), Anchor(PageUrl, PdfUrl(2)), Anchor(NoUrl, PdfUrl(2)),
   Anchor(PageUrl, NoUrl), JsonUrl(PdfUrl(3)), Redirect(PdfUrl(4))}

Docs == UNION {[1..n -> Elements] : n \in 0..MaxDocLen}


\* -------------------------------------------------------------------- state
VARIABLES
  variant,          \* which implementation of POST /api/process-pdf is deployed
  pc,               \* position of the handler
  scoreUrl, slug,   \* the request body
  browser,          \* the handler's `browser` variable is assigned
  page,             \* a page object was created
  handle,           \* the browser connection/process: "none", "held", "released"
  response,         \* response of the navigation to scoreUrl
  pageDoc,          \* the document of the page, as the locator read it
  downloadLink,     \* the located link
  pdfResponse,      \* response of the navigation to the located link
  pdfBuffer,        \* the payload handed to the upload
  error,            \* message of the error caught by the handler
  result,           \* what the handler returns
  store,            \* the bucket: a set of [key, body] objects
  hist,             \* what this run did (history)
  lastAck,          \* per slug, the latest acknowledged put (history)
  returned,         \* per slug, the URLs returned by successful runs (history)
  scores,           \* review page: the list of scores
  currentScoreIndex,
  apc,              \* position of handleApprove
  scoreToProcess,
  clickIndex,       \* currentScoreIndex as captured by the running handleApprove
  newScoreUrl,
  updateError,
  uiError,          \* the page's error banner
  lastUpdate,       \* the PATCH /api/scores request issued by this approval
  approval,         \* what this approval observed (history)
  queue,            \* ApprovalQueue.queue: the waiting tasks, by request
  processing,       \* ApprovalQueue.processing
  rpc,              \* per request to /api/sheets, where its handler or task is
  action,           \* per request, the action of its body
  sheet,            \* per sheet of the spreadsheet: "missing", "bare", "ready"
  promise,          \* per request, the promise returned by add()
  status,           \* per request, the status of the response (0: none yet)
  qhist,            \* order of the adds and starts, outcomes (history)
  route,            \* which implementation of POST /api/sheets is deployed
  book,             \* the spreadsheet: per sheet, its id and its rows
  sheetId,          \* the module's cache of a sheet id (NoSheetId: null)
  local,            \* per request, the locals of the call its task is in
  flights,          \* review page: per click, the handler it started
  editionPage,      \* which implementation of the editions page is deployed
  changingStatus,   \* editions page: the state changingStatus (NoEdition: null)
  shown,            \* editions page: per edition, the status the page shows
  pageError,        \* editions page: the state error
  changes,          \* per click on an edition, its handler and its request
  stored            \* document store: per edition, its status

hvars == <<variant, pc, scoreUrl, slug, browser, page, handle, response, pageDoc,
           downloadLink, pdfResponse, pdfBuffer, error, result, store, hist,
           lastAck, returned>>
avars == <<scores, currentScoreIndex, apc, scoreToProcess, clickIndex, newScoreUrl,
           updateError, uiError, lastUpdate, approval>>
qvars == <<queue, processing, rpc, action, sheet, promise, status, qhist,
           route, book, sheetId, local>>
evars == <<flights, editionPage, changingStatus, shown, pageError, changes, stored>>
vars == <<hvars, avars, qvars, evars>>

\* ------------------------------------------------------------ PDF locators
Min(S) == CHOOSE x \in S : \A y \in S : x <= y

\* links.find(link => link.href?.includes('.pdf') ||
\*                    link.getAttribute('data-id')?.includes('.pdf'))
PdfLinkIndexes(doc) ==
  {i \in 1..Len(doc) : doc[i].tag = "a" /\ (doc[i].href.pdf \/ doc[i].dataId.pdf)}

\* The locator of the puppeteer variants: the href of the first anchor, in
\* document order, whose href or data-id contains '.pdf'.
DomLocate(doc) ==
  IF PdfLinkIndexes(doc) = {} THEN NoUrl ELSE doc[Min(PdfLinkIndexes(doc))].href

\* The four regular expressions of the pattern list, in list order; each
\* captures an https URL containing '.pdf'.
NumPatterns == 4

PatternCapture(k, e) ==
  CASE k = 1 -> e.href
    [] k = 2 -> e.dataId
    [] k = 3 -> IF e.tag = "json" THEN e.url ELSE NoUrl
    [] k = 4 -> IF e.tag = "redirect" THEN e.url ELSE NoUrl

\* content.match(pattern): the first match in the text, or none.
PatternMatch(k, doc) ==
  LET hits == {i \in 1..Len(doc) : PatternCapture(k, doc[i]).pdf}
  IN IF hits = {} THEN NoUrl ELSE PatternCapture(k, doc[Min(hits)])

\* for (const pattern of patterns) { match = ...; if (match && match[1]) return match[1] }
RegexLocate(doc) ==
  LET ks == {k \in 1..NumPatterns : PatternMatch(k, doc).pdf}
  IN IF ks = {} THEN NoUrl ELSE PatternMatch(Min(ks), doc)

Locate(v, doc) == IF v = "playwright" THEN RegexLocate(doc) ELSE DomLocate(doc)

\* ------------------------------------------------------- key and public URL
\* Mutation of NewKey: the key also depends on the source of the payload.
NewKeyPerSource(s) == <<APPROVED_PREFIX, "/", s, "-">> \o scoreUrl \o <<".pdf">>

\* fileName = `${slug}.pdf`;  newKey = `${APPROVED_PREFIX}/${fileName}`
NewKey(s) == <<APPROVED_PREFIX, "/", s, ".pdf">>

\* Mutation of NewUrl: the URL is built from fileName instead of newKey.
NewUrlFromFileName(key) ==
  <<"https://", BUCKET_NAME, ".s3.", REGION, ".amazonaws.com/">> \o SubSeq(key, 3, 4)

\* newUrl = `https://${BUCKET_NAME}.s3.${REGION}.amazonaws.com/${newKey}`
NewUrl(key) == <<"https://", BUCKET_NAME, ".s3.", REGION, ".amazonaws.com/">> \o key

\* s3Client.send(new PutObjectCommand({Bucket, Key, Body, ContentType})):
\* the object at Key is replaced.
PutObject(st, key, body) ==
  {o \in st : o.key # key} \cup {[key |-> key, body |-> body]}

\* ------------------------------------------------------------------ results
NoResult == [kind |-> "none", status |-> 0, url |-> <<>>, error |-> "", details |-> ""]
SuccessResult(u) ==
  [kind |-> "success", status |-> 200, url |-> u, error |-> "", details |-> ""]
MissingParams ==
  [kind |-> "error", status |-> 400, url |-> <<>>,
   error |-> "Missing required parameters", details |-> ""]
FailureResult(msg) ==
  [kind |-> "error", status |-> 500, url |-> <<>>,
   error |-> "Failed to process PDF", details |-> msg]
\* An exception that leaves the handler: no response object is returned.
Unhandled(msg) ==
  [kind |-> "unhandled", status |-> 0, url |-> <<>>, error |-> "", details |-> msg]

\* Messages of the errors thrown by the libraries.
TimeoutError == "TimeoutError: Navigation timeout exceeded"
NetworkError == "net::ERR_FAILED"
ProtocolError == "ProtocolError: Target closed"
S3Error == "S3ServiceException"


\* ------------------------------------------------------------ initial state
NoHist ==
  [navigations |-> 0, navTimeout |-> FALSE, direct |-> FALSE, gate |-> FALSE,
   gateThrew |-> FALSE, locate |-> FALSE, emptyBody |-> FALSE, putCalls |-> 0,
   cleanupThrew |-> ""]
NoAck == [acked |-> FALSE, body |-> <<>>, replaced |-> FALSE]
NoScore == [id |-> 0, scoreUrl |-> <<>>, slug |-> ""]
NoUpdate == [scoreId |-> 0, status |-> "", scoreUrl |-> <<>>]
NoApproval == [acquisition |-> "none", update |-> "none", errorPath |-> FALSE,
               sheets |-> 0, sheetsOut |-> "none", threw |-> FALSE]

\* Requests to POST /api/sheets, and the two sheets the route keeps.
Requests == 1..MaxRequests
SheetNames == <<PIECES_SHEET, APPROVED_EDITIONS_SHEET>>

\* The action of the r-th request's body: approvals, with a removal and an
\* unknown action among them.
ActionOf(r) ==
  IF r % 4 = 0 THEN "other" ELSE IF r % 4 = 2 THEN "remove" ELSE "add"

\* A position: the statement a request is at, and the index of the sheet
\* (in ensureSheetExists) or of the step (in a task) it is working on.
At(where, k) == [at |-> where, n |-> k]

\* ---------------------------------------------------------- the spreadsheet
\* The implementations of POST /api/sheets: the one taking {action, score}
\* (add, remove) and the one taking {action, data} (add_edition,
\* remove_edition).
Routes == {"score", "data"}

\* The action of the r-th body, as the deployed route names it.
ActionFor(rt, r) ==
  LET a == ActionOf(r)
  IN IF rt = "score" \/ a = "other" THEN a
     ELSE IF a = "add" THEN "add_edition" ELSE "remove_edition"

\* createSlug on the names used here: lower case, runs of other characters
\* replaced by "-", no "-" at the ends.
createSlug(composerName, pieceName) ==
  IF composerName \in {"Bach", "BACH", " bach"} /\ pieceName \in {"BWV 846", "bwv-846!"}
  THEN "bach-bwv-846"
  ELSE IF composerName = "Chopin" /\ pieceName = "Op. 28" THEN "chopin-op-28"
  ELSE "other"

\* The score (or edition) of the r-th body: the requests are about one piece,
\* spelled differently; the removal is of the first request's edition.
ScoreOf(r) ==
  [composerName |-> IF r % 4 = 3 THEN "BACH" ELSE "Bach",
   pieceName |-> IF r % 4 = 3 THEN "bwv-846!" ELSE "BWV 846",
   scoreUrl |-> IF r % 4 = 3 THEN "https://s3/b.pdf" ELSE "https://s3/a.pdf",
   pieceSlug |-> "bach-bwv-846",
   slug |-> "bach-bwv-846-henle"]

\* A row, by the columns the code reads: A, B and E.
Row(a, b, e) == [a |-> a, b |-> b, e |-> e]

\* The header rows that POST hands to ensureSheetExists.
Header(rt, i) ==
  IF i = 1 THEN Row("Slug", IF rt = "score" THEN "Piece Name" ELSE "Piece Title",
                    IF rt = "score" THEN "Summary" ELSE "Era")
  ELSE Row("Piece Slug", IF rt = "score" THEN "Editor" ELSE "Edition Slug",
           IF rt = "score" THEN "Score URL" ELSE "Copyright")

\* pieceRow of addPieceIfNotExists
PieceRow(score) ==
  Row(createSlug(score.composerName, score.pieceName), score.pieceName, "")

\* editionRow of addEditionToSheet, in either route
EditionRow(rt, score) ==
  IF rt = "score"
  THEN Row(createSlug(score.composerName, score.pieceName), "", score.scoreUrl)
  ELSE Row(score.pieceSlug, score.slug, "")

\* let sheetId: number | null = null
NoSheetId == -1

\* The ids the two sheets can have: a sheet made by hand can be the
\* spreadsheet's first sheet, whose id is 0.
SheetIdChoices == {<<0, 1>>, <<1, 0>>, <<1, 2>>}

OtherPiece == Row("chopin-op-28", "Op. 28", "")

\* Data rows of the Pieces sheet at start: the other piece any number of
\* times, the piece of the requests at most once.
PieceArrangements ==
  {a \in UNION {[1..n -> {PieceRow(ScoreOf(1)), OtherPiece}] : n \in 0..MaxRows} :
     Cardinality({j \in DOMAIN a : a[j] = PieceRow(ScoreOf(1))}) <= 1}

\* Data rows of the Approved Editions sheet at start.
EditionArrangements(rt) == {<<>>, <<EditionRow(rt, ScoreOf(1))>>}

Sheet(id, rows) == [id |-> id, rows |-> rows]

\* No sheet yet: the ids are the ones addSheet will give.
NoBook == <<Sheet(1, <<>>), Sheet(2, <<>>)>>

\* The spreadsheets a deployment can start with.
InitialBooks(rt) ==
  {NoBook} \cup
  {<<Sheet(ids[1], <<Header(rt, 1)>> \o p), Sheet(ids[2], <<Header(rt, 2)>> \o e)>> :
     ids \in SheetIdChoices,
     p \in (IF rt = "score" THEN PieceArrangements ELSE {<<>>}),
     e \in EditionArrangements(rt)}

\* The locals of a call, and what the request's task did so far (history):
\* its appends, whether a call to the Sheets API failed, whether getSheetId
\* reported a sheet as not found, what cleanupDuplicatePieces read and
\* whether it went through its deletions.
NoFrame ==
  [pc |-> "", retries |-> 0, todo |-> <<>>, row |-> 0, id |-> 0,
   appends |-> 0, apiFailed |-> FALSE, notFound |-> FALSE, read |-> <<>>,
   cleaned |-> FALSE]

NoQueueHist(reqs) ==
  [added |-> <<>>, started |-> <<>>,
   runs |-> [r \in reqs |-> 0],
   outcome |-> [r \in reqs |-> "none"]]

\* The queue of the sheets route at start, with the requests reqs to come.
InitQueue(reqs) ==
  /\ queue = <<>>
  /\ processing = FALSE
  /\ rpc = [r \in reqs |-> At("new", 0)]
  /\ action = [r \in reqs |-> ""]
  /\ promise = [r \in reqs |-> "none"]
  /\ status = [r \in reqs |-> 0]
  /\ qhist = NoQueueHist(reqs)
  /\ local = [r \in reqs |-> NoFrame]

\* The sheets route at start, on a spreadsheet that has neither sheet.
InitSheets(reqs) ==
  /\ InitQueue(reqs)
  /\ sheet = [i \in 1..Len(SheetNames) |-> "missing"]
  /\ route = "score"
  /\ book = NoBook
  /\ sheetId = NoSheetId

\* The review page and the process-pdf handler at start.
InitPipeline ==
  /\ variant \in Variants
  /\ pc = "idle"
  /\ scoreUrl = <<>> /\ slug = ""
  /\ browser = FALSE /\ page = FALSE /\ handle = "none"
  /\ response = NoResponse /\ pageDoc = <<>> /\ downloadLink = NoUrl
  /\ pdfResponse = NoResponse /\ pdfBuffer = <<>>
  /\ error = "" /\ result = NoResult
  /\ store = {}
  /\ hist = NoHist
  /\ lastAck = [s \in Slugs |-> NoAck]
  /\ returned = [s \in Slugs |-> {}]
  /\ scores \in ScoreLists
  /\ currentScoreIndex = 0
  /\ apc = "idle"
  /\ scoreToProcess = NoScore
  /\ clickIndex = 0
  /\ newScoreUrl = <<>>
  /\ updateError = ""
  /\ uiError = ""
  /\ lastUpdate = NoUpdate
  /\ approval = NoApproval

\* The handlers the clicks of one session start, in the order of the clicks.
Clicks == 1..MaxClicks

NoFlight ==
  [kind |-> "", at |-> "idle", score |-> NoScore, index |-> 0, held |-> <<>>,
   restored |-> FALSE]

InitFlights == flights = [k \in Clicks |-> NoFlight]

\* The editions on the page, by _id; changingStatus is null or an _id.
Editions == {"edition-a", "edition-b"}
NoEdition == "null"

NoChange ==
  [edition |-> NoEdition, status |-> "", at |-> "idle", response |-> 0,
   before |-> "", after |-> "", disturbed |-> FALSE]

\* The pages at start, with no click made.  page.tsx shows the new status at
\* the click and reloads on a failure ("optimistic"), the two other
\* implementations show it when the request has succeeded ("confirmed").
InitEditions ==
  /\ editionPage \in {"optimistic", "confirmed"}
  /\ stored \in [Editions -> {"unreviewed", "approved", "rejected"}]
  /\ shown = stored
  /\ changingStatus = NoEdition
  /\ pageError = ""
  /\ changes = [k \in Clicks |-> NoChange]

\* A session that never opens the editions pages.
InitPages ==
  /\ InitFlights
  /\ InitEditions
  /\ editionPage = "confirmed"
  /\ stored = [e \in Editions |-> "unreviewed"]

\* The pipeline, with no request to the sheets route.
Init == InitPipeline /\ InitSheets({}) /\ InitPages

\* --------------------------------------------- POST /api/process-pdf, by step
\* Mutation of Throw: a failed download sends the run back to the navigation.
ThrowRetriesNavigation(msg) ==
  error' = msg /\ pc' = IF pc = "download" THEN "goto" ELSE "catch"

\* throw inside the try block: control passes to the catch clause.
Throw(msg) == error' = msg /\ pc' = "catch"

\* Mutation of MissingParameters: only the URL is checked.
MissingScoreUrl(u, s) == u = <<>>

\* if (!scoreUrl || !slug)
MissingParameters(u, s) == u = <<>> \/ s = ""

\* const { scoreUrl, slug } = await request.json(); if (!scoreUrl || !slug) ...
ParseRequest ==
  /\ pc = "parse"
  /\ \E out \in {"ok", "throws"} :
       IF out = "throws" THEN
         /\ Throw("SyntaxError")
         /\ UNCHANGED result
       ELSE IF MissingParameters(scoreUrl, slug) THEN
         /\ result' = MissingParams
         /\ pc' = "finally"
         /\ UNCHANGED error
       ELSE
         /\ pc' = IF variant = "connect" THEN "cookies" ELSE "launch"
         /\ UNCHANGED <<error, result>>
  /\ UNCHANGED <<variant, scoreUrl, slug, browser, page, handle, response, pageDoc,
                 downloadLink, pdfResponse, pdfBuffer, store, hist, lastAck,
                 returned, avars, qvars, evars>>

\* cookies = JSON.parse(process.env.IMSLP_COOKIES) (connect variant)
CheckCookies ==
  /\ pc = "cookies"
  /\ \E out \in {"ok", "invalid"} :
       IF out = "invalid"
       THEN Throw("Invalid IMSLP_COOKIES format. Must be a valid JSON array.")
       ELSE pc' = "launch" /\ UNCHANGED error
  /\ UNCHANGED <<variant, scoreUrl, slug, browser, page, handle, response, pageDoc,
                 downloadLink, pdfResponse, pdfBuffer, result, store, hist, lastAck,
                 returned, avars, qvars, evars>>

\* browser = await getBrowser() | puppeteer.launch(...) | chromium.launch().
\* In getBrowser the calls after puppeteer.connect (browser.version(),
\* browser.targets()) sit in the same try block: when one of them throws, the
\* connection exists but is never assigned to the handler's variable.
AcquireBrowserOutcomes(v) ==
  IF v = "connect" THEN {"ok", "fails", "failsAfterConnect"} ELSE {"ok", "fails"}

AcquireBrowser ==
  /\ pc = "launch"
  /\ \E out \in AcquireBrowserOutcomes(variant) :
       CASE out = "ok" ->
              /\ browser' = TRUE /\ handle' = "held"
              /\ pc' = "newPage" /\ UNCHANGED error
         [] out = "fails" ->
              /\ Throw("Failed to start the browser")
              /\ UNCHANGED <<browser, handle>>
         [] out = "failsAfterConnect" ->
              /\ handle' = "held"
              /\ Throw("Failed to connect to the browser")
              /\ UNCHANGED browser
  /\ UNCHANGED <<variant, scoreUrl, slug, page, response, pageDoc, downloadLink,
                 pdfResponse, pdfBuffer, result, store, hist, lastAck, returned,
                 avars, qvars, evars>>

\* page = await browser.newPage(), then the calls that configure or inspect it
\* (browser.targets(), page.cookies(), page.setViewport(), context.newPage()).
NewPage ==
  /\ pc = "newPage"
  /\ \E out \in {"ok", "throwsBefore", "throwsAfter"} :
       CASE out = "ok" -> page' = TRUE /\ pc' = "goto" /\ UNCHANGED error
         [] out = "throwsBefore" -> Throw(ProtocolError) /\ UNCHANGED page
         [] out = "throwsAfter" ->
              /\ page' = TRUE
              /\ Throw(IF variant = "connect" THEN "Failed to set IMSLP cookies"
                       ELSE ProtocolError)
  /\ UNCHANGED <<variant, scoreUrl, slug, browser, handle, response, pageDoc,
                 downloadLink, pdfResponse, pdfBuffer, result, store, hist, lastAck,
                 returned, avars, qvars, evars>>


\* await page.goto(scoreUrl, {waitUntil, timeout}).  A response with any HTTP
\* status resolves the navigation; the status is only logged.
Navigate ==
  /\ pc = "goto"
  /\ \/ \E msg \in {TimeoutError, NetworkError} :
          Throw(msg) /\ UNCHANGED response
     \/ \* page.goto resolved with null
        /\ IF variant = "playwright"
           THEN pc' = "locate" /\ UNCHANGED error
           ELSE Throw("Failed to get response from IMSLP page")
        /\ UNCHANGED response
     \/ \E r \in Responses :
          /\ response' = r
          /\ pc' = IF variant = "playwright" THEN "locate"
                   ELSE IF IsPdfType(r.contentType) THEN "directBuffer"
                   ELSE "gate"
          /\ UNCHANGED error
  /\ hist' = [hist EXCEPT !.navigations = @ + 1,
                          !.navTimeout = (error' = TimeoutError)]
  /\ UNCHANGED <<variant, scoreUrl, slug, browser, page, handle, pageDoc,
                 downloadLink, pdfResponse, pdfBuffer, result, store, lastAck,
                 returned, avars, qvars, evars>>

\* if (contentType.includes('application/pdf')) { pdfBuffer = await response.buffer() ...
ReadDirectBody ==
  /\ pc = "directBuffer"
  /\ \E out \in {"ok", "throws"} :
       IF out = "throws" THEN
         /\ Throw(ProtocolError)
         /\ hist' = [hist EXCEPT !.direct = TRUE]
         /\ UNCHANGED pdfBuffer
       ELSE
         /\ pdfBuffer' = response.body
         /\ hist' = [hist EXCEPT !.direct = TRUE,
                                 !.emptyBody = (Len(response.body) = 0)]
         /\ pc' = "upload"
         /\ UNCHANGED error
  /\ UNCHANGED <<variant, scoreUrl, slug, browser, page, handle, response, pageDoc,
                 downloadLink, pdfResponse, result, store, lastAck, returned, avars, qvars, evars>>

\* Mutation of AfterGate: an exception of the gate check ends the run.
StopsWhenGateThrows(out) ==
  IF out \in {"timeout", "clickThrows"} THEN "catch" ELSE "locate"

\* } catch (e) { logWithTimestamp('No immediate "I understand" button found') }
\* Whatever the try block did, the next statement is the locator.
AfterGate(out) == "locate"

\* try { understandButton = await page.waitForSelector(..., {timeout: 5000});
\*       if (understandButton) { await understandButton.click() ... } } catch (e) { log }
\* absent: waitForSelector resolved with no element; timeout: it rejected
\* after 5 s; clickThrows: click() or waitForTimeout() rejected.  The caught
\* exception (gateThrew) is in scope until the locator starts.
GateCheck ==
  /\ pc = "gate"
  /\ \E out \in {"absent", "timeout", "clickThrows", "clicked"} :
       /\ hist' = [hist EXCEPT !.gate = TRUE,
                               !.gateThrew = out \in {"timeout", "clickThrows"}]
       /\ pc' = AfterGate(out)
  /\ UNCHANGED <<variant, scoreUrl, slug, browser, page, handle, response, pageDoc,
                 downloadLink, pdfResponse, pdfBuffer, error, result, store, lastAck,
                 returned, avars, qvars, evars>>

NotFoundMessage(v) ==
  CASE v = "connect" -> "No download link found on IMSLP page"
    [] v = "launch" -> "No download link found"
    [] v = "playwright" -> "Could not find PDF URL"

\* Mutation of LinkFound: the result of the locator is not tested.
LinkFoundAlways(link) == TRUE

\* The negation of the test if (!downloadLink?.href) / if (!pdfUrl).
LinkFound(link) == link # NoUrl

\* downloadLink = await page.evaluate(...); if (!downloadLink) throw ...
\* The document is the page as rendered when the locator runs.
LocateLink ==
  /\ pc = "locate"
  /\ hist' = [hist EXCEPT !.locate = TRUE, !.gateThrew = FALSE]
  /\ \/ \* page.content() or page.evaluate() throws
        Throw(ProtocolError) /\ UNCHANGED <<pageDoc, downloadLink>>
     \/ \E doc \in Docs :
          /\ pageDoc' = doc
          /\ downloadLink' = Locate(variant, doc)
          /\ IF ~LinkFound(downloadLink')
             THEN Throw(NotFoundMessage(variant))
             ELSE pc' = "download" /\ UNCHANGED error
  /\ UNCHANGED <<variant, scoreUrl, slug, browser, page, handle, response,
                 pdfResponse, pdfBuffer, result, store, lastAck, returned, avars, qvars, evars>>

\* if (pdfBuffer.byteLength === 0) throw new Error('Downloaded PDF is empty'):
\* only the connect variant has the check, and only on this branch.
RejectsEmptyDownload(v) == v = "connect"

\* pdfResponse = await page.goto(downloadLink); pdfBuffer = await pdfResponse.buffer()
DownloadNullMessage(v) ==
  IF v = "connect" THEN "Failed to download PDF from IMSLP" ELSE "Failed to download PDF"

Download ==
  /\ pc = "download"
  /\ \/ \* the navigation throws, resolves with null, or reading the body throws
        /\ \E msg \in {NetworkError, DownloadNullMessage(variant), ProtocolError} :
             Throw(msg)
        /\ hist' = [hist EXCEPT !.navigations = @ + 1]
        /\ UNCHANGED <<pdfResponse, pdfBuffer>>
     \/ \E r \in PdfResponses :
          /\ hist' = [hist EXCEPT !.navigations = @ + 1,
                                  !.emptyBody = (Len(r.body) = 0)]
          /\ pdfResponse' = r
          /\ pdfBuffer' = r.body
          /\ IF RejectsEmptyDownload(variant) /\ Len(r.body) = 0
             THEN Throw("Downloaded PDF is empty")
             ELSE pc' = "upload" /\ UNCHANGED error
  /\ pageDoc' = <<>>   \* the page has left the document it was showing
  /\ UNCHANGED <<variant, scoreUrl, slug, browser, page, handle, response,
                 downloadLink, result, store, lastAck, returned, avars, qvars, evars>>

\* await s3Client.send(new PutObjectCommand({Bucket, Key: newKey, Body: pdfBuffer}))
\* return NextResponse.json({ success: true, url: newUrl })
\* s3Client is built without a request handler and send() gets no abort
\* signal: when the service never answers, the promise never settles and the
\* handler stays at the await.
Upload ==
  /\ pc = "upload"
  /\ \E out \in {"ok", "throws", "never"} :
       IF out = "throws" THEN
         /\ hist' = [hist EXCEPT !.putCalls = @ + 1]
         /\ Throw(IF variant = "connect" THEN "Failed to upload PDF to S3" ELSE S3Error)
         /\ UNCHANGED <<store, lastAck, result>>
       ELSE IF out = "never" THEN
         /\ hist' = [hist EXCEPT !.putCalls = @ + 1]
         /\ pc' = "awaitPut"
         /\ UNCHANGED <<store, lastAck, result, error>>
       ELSE
         /\ hist' = [hist EXCEPT !.putCalls = @ + 1]
         /\ store' = PutObject(store, NewKey(slug), pdfBuffer)
         /\ lastAck' = [lastAck EXCEPT ![slug] =
                          [acked |-> TRUE, body |-> pdfBuffer,
                           replaced |-> \E o \in store : o.key = NewKey(slug)
                                                        /\ o.body # pdfBuffer]]
         /\ result' = SuccessResult(NewUrl(NewKey(slug)))
         /\ pc' = "finally"
         /\ UNCHANGED error
  /\ UNCHANGED <<variant, scoreUrl, slug, browser, page, handle, response, pageDoc,
                 downloadLink, pdfResponse, pdfBuffer, returned, avars, qvars, evars>>

\* Mutation of CaughtResult: the response carries the details only.
CaughtWithoutError(msg) == [FailureResult(msg) EXCEPT !.error = ""]

\* The response the catch clause builds from the caught error.
CaughtResult(msg) == FailureResult(msg)

\* catch (error) { ...; return NextResponse.json({ error: 'Failed to process PDF',
\*                                                 details }, { status: 500 }) }
Catch ==
  /\ pc = "catch"
  /\ result' = CaughtResult(error)
  /\ pc' = "finally"
  /\ pageDoc' = <<>>   \* pageContent is out of scope
  /\ UNCHANGED <<variant, scoreUrl, slug, browser, page, handle, response,
                 downloadLink, pdfResponse, pdfBuffer, error, store, hist, lastAck,
                 returned, avars, qvars, evars>>

\* finally { if (browser) { ... } }.  The connect variant wraps its cleanup in a
\* try/catch: browser.pages() and browser.targets() (for the log line), then
\* page.close(), then browser.disconnect(); the first call that throws ends the
\* cleanup.  The other variants await browser.close() unguarded.
CleanupOutcomes(v, hasPage) ==
  IF v = "connect"
  THEN {"ok", "bookkeepingThrows", "releaseThrows"}
         \cup (IF hasPage THEN {"pageCloseThrows"} ELSE {})
  ELSE {"ok", "releaseThrows"}

\* A throw in finally replaces the pending return value.
ResultAfterCleanup(v, out, res) ==
  IF v # "connect" /\ out = "releaseThrows" THEN Unhandled(ProtocolError) ELSE res

\* The run ends: the response (or the exception) reaches the caller.  The page
\* is closed or abandoned, and its document with it.
Finish(res) ==
  /\ pc' = "done"
  /\ pageDoc' = <<>>
  /\ result' = res
  /\ returned' = IF res.kind = "success"
                 THEN [returned EXCEPT ![slug] = @ \cup {res.url}]
                 ELSE returned

Finally ==
  /\ pc = "finally"
  /\ IF ~browser THEN
       /\ Finish(result)
       /\ UNCHANGED <<handle, hist>>
     ELSE
       \E out \in CleanupOutcomes(variant, page) :
         /\ handle' = IF out = "ok" THEN "released" ELSE handle
         /\ hist' = [hist EXCEPT !.cleanupThrew = IF out = "ok" THEN "" ELSE out]
         /\ Finish(ResultAfterCleanup(variant, out, result))
  /\ UNCHANGED <<variant, scoreUrl, slug, browser, page, response, downloadLink,
                 pdfResponse, pdfBuffer, error, store, lastAck, avars, qvars, evars>>


\* ------------------------------------------------ review page: handleApprove
Min2(a, b) == IF a <= b THEN a ELSE b

\* prev.filter((_, i) => i !== index), with the code's 0-based index
RemoveAt(list, index) ==
  [j \in 1..(Len(list) - 1) |-> IF j <= index THEN list[j] ELSE list[j + 1]]

\* Mutation of InsertAt: splice(index, 1, item), which puts the item in the
\* place of the element at the index.
ReplaceAt(list, index, item) ==
  LET at == Min2(index, Len(list))
  IN [j \in 1..(IF at = Len(list) THEN at + 1 ELSE Len(list)) |-> IF j = at + 1 THEN item ELSE list[j]]

\* newScores.splice(index, 0, item)
InsertAt(list, index, item) ==
  LET at == Min2(index, Len(list))
  IN [j \in 1..(Len(list) + 1) |->
        IF j <= at THEN list[j] ELSE IF j = at + 1 THEN item ELSE list[j - 1]]

HasCurrentScore == currentScoreIndex >= 0 /\ currentScoreIndex < Len(scores)

\* The click: the score leaves the list at once, and the request to
\* /api/process-pdf is sent with the score's URL and slug.
ApproveClick ==
  /\ apc = "idle"
  /\ pc = "idle"
  /\ HasCurrentScore
  /\ scoreToProcess' = scores[currentScoreIndex + 1]
  /\ clickIndex' = currentScoreIndex
  /\ scores' = RemoveAt(scores, currentScoreIndex)
  /\ currentScoreIndex' = Min2(currentScoreIndex, Len(scores) - 2)
  /\ newScoreUrl' = scoreToProcess'.scoreUrl
  /\ updateError' = ""
  /\ lastUpdate' = NoUpdate
  /\ approval' = [NoApproval EXCEPT !.acquisition = "pending"]
  /\ apc' = "acquiring"
  /\ UNCHANGED uiError
  \* the handler starts on the request
  /\ pc' = "parse"
  /\ scoreUrl' = scoreToProcess'.scoreUrl
  /\ slug' = scoreToProcess'.slug
  /\ browser' = FALSE /\ page' = FALSE /\ handle' = "none"
  /\ response' = NoResponse /\ pageDoc' = <<>> /\ downloadLink' = NoUrl
  /\ pdfResponse' = NoResponse /\ pdfBuffer' = <<>>
  /\ error' = "" /\ result' = NoResult
  /\ hist' = NoHist
  /\ UNCHANGED <<variant, store, lastAck, returned, qvars, evars>>

\* Mutation of UrlAfterAcquisition: the response's url is used without the
\* check of response.ok.
UrlWithoutOkCheck(original, res, read) == IF read THEN res.url ELSE original

\* What the caller makes of the endpoint's answer: `processedUrl` when the
\* response is OK and its body was read, the original URL otherwise (the inner
\* catch swallows the error).
UrlAfterAcquisition(original, res, read) ==
  IF res.kind = "success" /\ read THEN res.url ELSE original

ObservedAcquisition(res, read) ==
  IF ~read THEN "threw" ELSE IF res.kind = "success" THEN "ok" ELSE "failed"

\* The fetch settles.  read = FALSE: the fetch or the reading of the body threw.
\* The handler has returned: its locals are gone, its response stays with the
\* caller.
ReceiveProcessPdf ==
  /\ apc = "acquiring"
  /\ pc = "done"
  /\ \E read \in BOOLEAN :
       /\ newScoreUrl' = UrlAfterAcquisition(scoreToProcess.scoreUrl, result, read)
       /\ approval' = [approval EXCEPT !.acquisition = ObservedAcquisition(result, read)]
  /\ apc' = "updating"
  /\ pc' = "idle"
  /\ browser' = FALSE /\ page' = FALSE /\ handle' = "none"
  /\ response' = NoResponse /\ pageDoc' = <<>> /\ downloadLink' = NoUrl
  /\ pdfResponse' = NoResponse /\ pdfBuffer' = <<>>
  /\ error' = ""
  /\ hist' = NoHist
  /\ UNCHANGED <<variant, scoreUrl, slug, result, store, lastAck, returned,
                 scores, currentScoreIndex, scoreToProcess, clickIndex, updateError,
                 uiError, lastUpdate, qvars, evars>>

\* The body of the PATCH /api/scores request.
UpdateRequest(score, url) ==
  [scoreId |-> score.id, status |-> "approved", scoreUrl |-> url]

\* fetch('/api/scores', PATCH); on a failure the outer catch sets the error
\* banner and puts the score back at the index captured by the click.
UpdateScore ==
  /\ apc = "updating"
  /\ lastUpdate' = UpdateRequest(scoreToProcess, newScoreUrl)
  /\ \E out \in {"ok", "failed", "threw"} :
       /\ approval' = [approval EXCEPT !.update = out, !.errorPath = (out # "ok")]
       /\ IF out = "ok" THEN
            UNCHANGED <<updateError, uiError, scores>>
          ELSE
            /\ updateError' = IF out = "failed" THEN "Failed to update score status"
                              ELSE ""
            /\ uiError' = "Failed to process approval"
            /\ scores' = InsertAt(scores, clickIndex, scoreToProcess)
  /\ apc' = "sheets"
  /\ UNCHANGED <<hvars, qvars, evars, currentScoreIndex, scoreToProcess, clickIndex,
                 newScoreUrl>>

\* Mutation of ThrowsAtEnd: a failed request to /api/sheets is rethrown.
ThrowsAfterSheetsFailure(updErr, out) == updErr # "" \/ out # "ok"

\* if (updateError) throw new Error(updateError): the outcome out of the
\* request to /api/sheets was logged and plays no part.
ThrowsAtEnd(updErr, out) == updErr # ""

\* fetch('/api/sheets', POST {action: 'add'}): its outcome is only logged.
\* Afterwards: if (updateError) throw new Error(updateError)
SheetsAdd ==
  /\ apc = "sheets"
  /\ \E out \in {"ok", "failed", "threw"} :
       approval' = [approval EXCEPT !.sheets = @ + 1, !.sheetsOut = out,
                                    !.threw = ThrowsAtEnd(updateError, out)]
  /\ apc' = "idle"
  /\ UNCHANGED <<hvars, qvars, evars, scores, currentScoreIndex, scoreToProcess,
                 clickIndex, newScoreUrl, updateError, uiError, lastUpdate>>

\* ------------------------------------- review page: several handlers in flight
\* if (error) return <div>{error}</div>: the page with its buttons is rendered
\* only while no approval has failed, and the buttons of a score only when
\* there is a current score.
ButtonsRendered == uiError = "" /\ HasCurrentScore

\* handlePreviousScore; the button is disabled at index 0.
HandlePreviousScore ==
  /\ ButtonsRendered
  /\ currentScoreIndex # 0
  /\ currentScoreIndex' = (IF currentScoreIndex - 1 >= 0 THEN currentScoreIndex - 1 ELSE 0)
  /\ UNCHANGED <<hvars, qvars, evars, scores, apc, scoreToProcess, clickIndex,
                 newScoreUrl, updateError, uiError, lastUpdate, approval>>

\* handleNextScore; the button is disabled at the last index.
HandleNextScore ==
  /\ ButtonsRendered
  /\ currentScoreIndex # Len(scores) - 1
  /\ currentScoreIndex' = Min2(Len(scores) - 1, currentScoreIndex + 1)
  /\ UNCHANGED <<hvars, qvars, evars, scores, apc, scoreToProcess, clickIndex,
                 newScoreUrl, updateError, uiError, lastUpdate, approval>>

\* The synchronous part of handleApprove and of handleReject: the score
\* leaves the list and the index is clamped with the list of this render,
\* whatever handlers are still in flight.  The handler then waits at its first
\* await: handleApprove for /api/process-pdf, handleReject for the PATCH of
\* /api/scores.
Click(kind) ==
  /\ ButtonsRendered
  /\ \E k \in Clicks :
       /\ flights[k].kind = ""
       /\ \A j \in Clicks : flights[j].kind = "" => k <= j
       /\ flights' = [flights EXCEPT ![k] =
                        [kind |-> kind,
                         at |-> IF kind = "approve" THEN "acquiring" ELSE "updating",
                         score |-> scores[currentScoreIndex + 1],
                         index |-> currentScoreIndex, held |-> scores,
                         restored |-> FALSE]]
  /\ scores' = RemoveAt(scores, currentScoreIndex)
  /\ currentScoreIndex' = Min2(currentScoreIndex, Len(scores) - 2)
  /\ UNCHANGED <<hvars, qvars, editionPage, changingStatus, shown, pageError,
                 changes, stored, apc, scoreToProcess, clickIndex, newScoreUrl,
                 updateError, uiError, lastUpdate, approval>>

\* handleApprove: the fetch of /api/process-pdf settles; its failure is
\* swallowed by the inner catch.
AcquisitionSettles(k) ==
  /\ flights[k].at = "acquiring"
  /\ flights' = [flights EXCEPT ![k].at = "updating"]
  /\ UNCHANGED <<hvars, avars, qvars, editionPage, changingStatus, shown,
                 pageError, changes, stored>>

\* The PATCH of /api/scores settles.  handleApprove: on a failure the catch
\* sets the error and splices the score back at the index the click captured.
\* handleReject: a failure is logged.
UpdateSettles(k) ==
  /\ flights[k].at = "updating"
  /\ \E out \in {"ok", "failed", "threw"} :
       IF flights[k].kind = "approve" THEN
         IF out = "ok" THEN
           /\ flights' = [flights EXCEPT ![k].at = "sheets"]
           /\ UNCHANGED <<scores, uiError>>
         ELSE
           /\ flights' = [flights EXCEPT ![k].at = "sheets", ![k].restored = TRUE]
           /\ uiError' = "Failed to process approval"
           /\ scores' = InsertAt(scores, flights[k].index, flights[k].score)
       ELSE
         /\ flights' = [flights EXCEPT ![k].at = "done"]
         /\ UNCHANGED <<scores, uiError>>
  /\ UNCHANGED <<hvars, qvars, editionPage, changingStatus, shown, pageError,
                 changes, stored, currentScoreIndex, apc, scoreToProcess,
                 clickIndex, newScoreUrl, updateError, lastUpdate, approval>>

\* handleApprove: the fetch of /api/sheets settles, whatever its outcome.
SheetsSettles(k) ==
  /\ flights[k].at = "sheets"
  /\ flights' = [flights EXCEPT ![k].at = "done"]
  /\ UNCHANGED <<hvars, avars, qvars, editionPage, changingStatus, shown,
                 pageError, changes, stored>>

\* ------------------------------- editions pages and PATCH /api/editions
\* if (changingStatus === edition._id) return; the buttons of the edition are
\* disabled under the same condition.
AlreadyChanging(current, e) == current = e

\* handleEditionStatusChange up to its await: setChangingStatus(edition._id),
\* the optimistic update of page.tsx, and the PATCH request is sent.
HandleEditionStatusChange(e, s) ==
  /\ pageError = ""
  /\ ~AlreadyChanging(changingStatus, e)
  /\ \E k \in Clicks :
       /\ changes[k].at = "idle"
       /\ \A j \in Clicks : changes[j].at = "idle" => k <= j
       /\ changes' = [changes EXCEPT ![k] =
                        [NoChange EXCEPT !.edition = e, !.status = s,
                                         !.at = "commit", !.before = stored[e]]]
  /\ changingStatus' = e
  /\ shown' = IF editionPage = "optimistic" THEN [shown EXCEPT ![e] = s] ELSE shown
  /\ UNCHANGED <<hvars, avars, qvars, flights, editionPage, pageError, stored>>

\* return NextResponse.json(..., {status}): the status stored for the edition
\* when the response is made is kept with it.
Respond(k, code, st) ==
  [changes EXCEPT ![k].at = "responded", ![k].response = code,
                  ![k].after = st[changes[k].edition]]

\* A commit of another request changes the edition under the requests that
\* are being served for it.
Disturb(c, k) ==
  [j \in Clicks |->
     IF j # k /\ c[j].edition = c[k].edition /\ c[j].at \in {"commit", "fetch", "sheets"}
     THEN [c[j] EXCEPT !.disturbed = TRUE] ELSE c[j]]

\* PATCH: await client.patch(editionId).set({status, ...}).commit()
PatchCommit(k) ==
  /\ changes[k].at = "commit"
  /\ \E out \in {"ok", "throws"} :
       IF out = "ok" THEN
         /\ stored' = [stored EXCEPT ![changes[k].edition] = changes[k].status]
         /\ changes' = Disturb([changes EXCEPT ![k].at = "fetch"], k)
       ELSE
         /\ changes' = Respond(k, 500, stored)
         /\ UNCHANGED stored
  /\ UNCHANGED <<hvars, avars, qvars, flights, editionPage, changingStatus,
                 shown, pageError>>

\* The answer after the fetch of the edition.  approved: a missing edition is
\* answered 404 and a throw is caught and logged; rejected: both throw to the
\* outer catch.  0: the handler goes on to the sheets.
AfterFetch(newStatus, out) ==
  IF out = "found" THEN 0
  ELSE IF newStatus = "approved" THEN (IF out = "missing" THEN 404 ELSE 200)
  ELSE 500

\* PATCH: await client.fetch(...) of the edition that was just patched.
FetchEdition(k) ==
  /\ changes[k].at = "fetch"
  /\ \E out \in {"found", "missing", "throws"} :
       changes' = IF AfterFetch(changes[k].status, out) = 0
                  THEN [changes EXCEPT ![k].at = "sheets"]
                  ELSE Respond(k, AfterFetch(changes[k].status, out), stored)
  /\ UNCHANGED <<hvars, avars, qvars, flights, editionPage, changingStatus,
                 shown, pageError, stored>>

\* The answer after the request to /api/sheets.  approved: a failure is logged
\* ("Don't fail the request if sheets integration fails"); rejected: a
\* failure throws to the outer catch.
AfterSheets(newStatus, out) ==
  IF newStatus = "rejected" /\ out # "ok" THEN 500 ELSE 200

\* PATCH: await fetch(`${baseUrl}/api/sheets`, {add_edition | remove_edition})
SheetsSync(k) ==
  /\ changes[k].at = "sheets"
  /\ \E out \in {"ok", "failed", "threw"} :
       changes' = Respond(k, AfterSheets(changes[k].status, out), stored)
  /\ UNCHANGED <<hvars, avars, qvars, flights, editionPage, changingStatus,
                 shown, pageError, stored>>

\* handleEditionStatusChange after its await.  A response that is not OK, or
\* a fetch that threw, sets the error (and page.tsx reloads the pieces); an OK
\* response is shown by the pages that did not show it at the click.
\* finally: setChangingStatus(null), whichever edition it holds; the handler
\* returns and its locals are gone.
ResponseArrives(k) ==
  /\ changes[k].at = "responded"
  /\ \E arrived \in BOOLEAN :
       IF arrived /\ changes[k].response = 200 THEN
         /\ shown' = [shown EXCEPT ![changes[k].edition] = changes[k].status]
         /\ changes' = [changes EXCEPT ![k] = [NoChange EXCEPT !.at = "done"]]
         /\ UNCHANGED pageError
       ELSE
         /\ pageError' = "Failed to update edition status"
         /\ changes' = [changes EXCEPT ![k] =
                          [NoChange EXCEPT !.at = IF editionPage = "optimistic" THEN "refetch"
                                                  ELSE "done"]]
         /\ UNCHANGED shown
  /\ changingStatus' = NoEdition
  /\ UNCHANGED <<hvars, avars, qvars, flights, editionPage, stored>>

\* fetchPieces(currentPage), started by the catch of page.tsx and not awaited:
\* the pieces are read from the document store.
FetchPieces(k) ==
  /\ changes[k].at = "refetch"
  /\ \E out \in {"ok", "throws"} :
       shown' = IF out = "ok" THEN stored ELSE shown
  /\ changes' = [changes EXCEPT ![k].at = "done"]
  /\ UNCHANGED <<hvars, avars, qvars, flights, editionPage, changingStatus,
                 pageError, stored>>

\* --------------------------------------- POST /api/sheets and ApprovalQueue
\* Mutation of CanStart: the flag is not consulted.
CanStartWhileProcessing(proc, q) == Len(q) > 0

\* processQueue: if (this.processing || this.queue.length === 0) return
CanStart(proc, q) == ~proc /\ Len(q) > 0

\* Mutation of ContinuesAfterTask: the queue is not looked at again.
StopsAfterTask(q) == FALSE

\* finally { ...; if (this.queue.length > 0) { await this.processQueue() } }
ContinuesAfterTask(q) == Len(q) > 0

\* The awaited calls of a task, in order.  In the data route addEditionToSheet
\* starts with a call of removeDuplicateEdition.
TaskSteps(a) ==
  IF a = "add"
  THEN <<"cleanupDuplicatePieces", "addPieceIfNotExists", "addEditionToSheet">>
  ELSE IF a = "add_edition" THEN <<"removeDuplicateEdition", "addEditionToSheet">>
  ELSE IF a = "remove_edition" THEN <<"removeDuplicateEdition">>
  ELSE <<"removeEditionFromSheet">>

\* The actions POST hands to the queue.
QueuedActions(rt) ==
  IF rt = "score" THEN {"add", "remove"} ELSE {"add_edition", "remove_edition"}

\* processQueue() up to its await, called with the flag proc, the queue q,
\* the positions pos and the history h: the head of the queue is shifted out
\* and its task started, or nothing happens.
ProcessQueue(proc, q, pos, h) ==
  IF CanStart(proc, q)
  THEN /\ processing' = TRUE
       /\ queue' = Tail(q)
       /\ rpc' = [pos EXCEPT ![Head(q)] = At("task", 1)]
       /\ qhist' = [h EXCEPT !.started = Append(@, Head(q)),
                             !.runs[Head(q)] = @ + 1]
  ELSE /\ processing' = proc
       /\ queue' = q
       /\ rpc' = pos
       /\ qhist' = h

\* add(task): the wrapped task is pushed and processQueue() is called.
Add(r) ==
  /\ promise' = [promise EXCEPT ![r] = "pending"]
  /\ ProcessQueue(processing, Append(queue, r),
                  [rpc EXCEPT ![r] = At("queued", 0)],
                  [qhist EXCEPT !.added = Append(@, r)])

\* A throw in POST outside the queue: catch answers 500.
FailRequest(r) ==
  /\ rpc' = [rpc EXCEPT ![r] = At("done", 0)]
  /\ status' = [status EXCEPT ![r] = 500]
  /\ UNCHANGED <<queue, processing, promise, qhist>>

\* ensureSheetExists(sheet k) returned: the next sheet, then the dispatch on
\* the action.
AfterEnsure(r, k) ==
  IF k < Len(SheetNames) THEN
    /\ rpc' = [rpc EXCEPT ![r] = At("get", k + 1)]
    /\ UNCHANGED <<queue, processing, promise, status, qhist>>
  ELSE IF action[r] \in QueuedActions(route) THEN
    /\ Add(r)
    /\ UNCHANGED status
  ELSE
    /\ rpc' = [rpc EXCEPT ![r] = At("done", 0)]
    /\ status' = [status EXCEPT ![r] = 400]
    /\ UNCHANGED <<queue, processing, promise, qhist>>

\* const { action, score } = await request.json(); console.log(score.pieceName ...)
Post(r) ==
  /\ rpc[r].at = "new"
  /\ \/ /\ action' = [action EXCEPT ![r] = ActionFor(route, r)]
        /\ rpc' = [rpc EXCEPT ![r] = At("get", 1)]
        /\ UNCHANGED <<queue, processing, promise, status, qhist>>
     \/ \* the body is not JSON, or it has no score
        FailRequest(r) /\ UNCHANGED action
  /\ UNCHANGED <<sheet, route, book, sheetId, local, hvars, avars, evars>>

\* ensureSheetExists: headerResponse = await sheets.spreadsheets.values.get(...)
\* Any error of the read is taken to mean that the sheet does not exist.
EnsureGet(r) ==
  /\ rpc[r].at = "get"
  /\ \E out \in {"answers", "throws"} :
       IF out = "answers" /\ sheet[rpc[r].n] = "ready"
       THEN AfterEnsure(r, rpc[r].n)
       ELSE /\ rpc' = [rpc EXCEPT ![r] = At("create", rpc[r].n)]
            /\ UNCHANGED <<queue, processing, promise, status, qhist>>
  /\ UNCHANGED <<action, sheet, route, book, sheetId, local, hvars, avars, evars>>

\* ensureSheetExists: await sheets.spreadsheets.batchUpdate({addSheet}).
\* The service refuses a title that exists.
EnsureCreate(r) ==
  /\ rpc[r].at = "create"
  /\ \E out \in {"ok", "throws"} :
       IF out = "ok" /\ sheet[rpc[r].n] = "missing"
       THEN /\ sheet' = [sheet EXCEPT ![rpc[r].n] = "bare"]
            /\ rpc' = [rpc EXCEPT ![r] = At("header", rpc[r].n)]
            /\ UNCHANGED <<queue, processing, promise, status, qhist>>
       ELSE FailRequest(r) /\ UNCHANGED sheet
  /\ UNCHANGED <<action, route, book, sheetId, local, hvars, avars, evars>>

\* values.update of row 1: the row is written over whatever row 1 holds.
WriteHeader(rows, header) ==
  IF rows = <<>> THEN <<header>> ELSE [rows EXCEPT ![1] = header]

\* ensureSheetExists: await sheets.spreadsheets.values.update({values: [headers]})
EnsureHeader(r) ==
  /\ rpc[r].at = "header"
  /\ \E out \in {"ok", "throws"} :
       IF out = "ok"
       THEN /\ sheet' = [sheet EXCEPT ![rpc[r].n] = "ready"]
            /\ book' = [book EXCEPT ![rpc[r].n].rows =
                                      WriteHeader(@, Header(route, rpc[r].n))]
            /\ AfterEnsure(r, rpc[r].n)
       ELSE FailRequest(r) /\ UNCHANGED <<sheet, book>>
  /\ UNCHANGED <<action, route, sheetId, local, hvars, avars, evars>>

\* The wrapper of add(): try { await task(); resolve() } catch (error) {
\* reject(error) }, and POST, which awaits the promise: {success: true}, or
\* the catch's 500.
TaskEnds(r, out) ==
  /\ promise' = [promise EXCEPT ![r] = IF out = "ok" THEN "resolved" ELSE "rejected"]
  /\ status' = [status EXCEPT ![r] = IF out = "ok" THEN 200 ELSE 500]
  /\ qhist' = [qhist EXCEPT !.outcome[r] = out]
  /\ rpc' = [rpc EXCEPT ![r] = At("finished", 0)]

\* The call the task of r is in.
CurrentCall(r) == TaskSteps(action[r])[rpc[r].n]

\* The current call returns (the task goes on to its next call, or ends) or
\* throws (the task ends).
CallSettles(r, out) ==
  IF out = "ok" THEN
    IF rpc[r].n < Len(TaskSteps(action[r]))
    THEN /\ rpc' = [rpc EXCEPT ![r] = At("task", rpc[r].n + 1)]
         /\ UNCHANGED <<promise, status, qhist>>
    ELSE TaskEnds(r, "ok")
  ELSE TaskEnds(r, "threw")

\* One awaited call of the running task settles, whatever it did to the
\* sheets.  cleanupDuplicatePieces catches its own errors; the other calls
\* rethrow.
TaskStep(r) ==
  /\ rpc[r].at = "task"
  /\ \E out \in {"ok", "throws"} :
       CallSettles(r, IF CurrentCall(r) = "cleanupDuplicatePieces" THEN "ok" ELSE out)
  /\ UNCHANGED <<queue, processing, action, sheet, route, book, sheetId, local,
                 hvars, avars, evars>>

\* ------------------------------------------- the calls of a task, by await
Calling(r, f) == rpc[r].at = "task" /\ CurrentCall(r) = f

\* The current call returns or throws: its locals are gone.
Leave(r, fr, out) ==
  /\ CallSettles(r, out)
  /\ local' = [local EXCEPT ![r] =
                 [NoFrame EXCEPT !.appends = fr.appends, !.apiFailed = fr.apiFailed,
                                 !.notFound = fr.notFound, !.read = fr.read,
                                 !.cleaned = fr.cleaned]]

\* A call to the Sheets API failed.
ApiFailed(fr) == [fr EXCEPT !.apiFailed = TRUE]

\* What cleanupDuplicatePieces read is of no use once the next call is under
\* way.
Forget(fr) == [fr EXCEPT !.read = <<>>, !.cleaned = FALSE]

\* The current call goes on to its next await.
Stay(r, fr) ==
  /\ local' = [local EXCEPT ![r] = fr]
  /\ UNCHANGED <<rpc, promise, status, qhist>>

\* if (!sheet?.properties?.sheetId)
Falsy(n) == n = 0

\* getSheetId(SheetNames[i]) with the cache c on the spreadsheet b, where
\* exists tells whether the sheet is there: the cached id whatever the name;
\* otherwise spreadsheets.get throws, or the sheet is looked up by its title
\* and its id is cached.
GetSheetId(c, b, i, exists) ==
  IF c # NoSheetId
  THEN {[threw |-> FALSE, api |-> FALSE, notFound |-> FALSE, id |-> c, cache |-> c]}
  ELSE {[threw |-> TRUE, api |-> TRUE, notFound |-> FALSE, id |-> 0, cache |-> c],
        IF ~exists \/ Falsy(b[i].id)
        THEN [threw |-> TRUE, api |-> FALSE, notFound |-> exists, id |-> 0, cache |-> c]
        ELSE [threw |-> FALSE, api |-> FALSE, notFound |-> FALSE, id |-> b[i].id,
              cache |-> b[i].id]}

\* values.append: the row goes below the last row of the sheet.
AppendRow(b, i, row) == [b EXCEPT ![i].rows = Append(@, row)]

\* batchUpdate deleteDimension {sheetId: id, ROWS, startIndex, startIndex + 1}:
\* the sheet that has this id loses the row; rows below the data are empty.
DeleteRow(b, id, startIndex) ==
  [i \in DOMAIN b |->
     IF b[i].id = id /\ startIndex < Len(b[i].rows)
     THEN [b[i] EXCEPT !.rows = RemoveAt(@, startIndex)]
     ELSE b[i]]

\* Mutation of FindPieceBySlug: the loop starts one row too far down.
FindPieceBelowFirstRow(allRows, s) ==
  LET found == {j \in 3..Len(allRows) : allRows[j].a = s}
  IN IF found = {} THEN 0 ELSE Min(found)

\* findPieceBySlug: the 1-based number of the first data row with the slug,
\* 0 for null.
FindPieceBySlug(allRows, s) ==
  LET found == {j \in 2..Len(allRows) : allRows[j].a = s}
  IN IF found = {} THEN 0 ELSE Min(found)

\* cleanupDuplicatePieces, rows.forEach: the 1-based numbers of the data rows
\* whose slug an earlier data row has.
DuplicateRows(allRows) ==
  {j \in 2..Len(allRows) : \E k \in 2..(j - 1) : allRows[k].a = allRows[j].a}

\* duplicateRows.sort((a, b) => b - a)
RECURSIVE SortDescending(_)
SortDescending(S) ==
  IF S = {} THEN <<>>
  ELSE LET m == CHOOSE x \in S : \A y \in S : y <= x
       IN <<m>> \o SortDescending(S \ {m})

\* values.findIndex(...) of removeEditionFromSheet (piece slug and score URL,
\* header included) and of removeDuplicateEdition (edition slug, index > 0):
\* 0-based, -1 when no row matches.
EditionIndex(rt, values, score) ==
  LET found ==
        {j \in 1..Len(values) :
           IF rt = "score"
           THEN /\ values[j].a = createSlug(score.composerName, score.pieceName)
                /\ values[j].e = score.scoreUrl
           ELSE j - 1 > 0 /\ values[j].b = score.slug}
  IN IF found = {} THEN -1 ELSE Min(found) - 1

\* cleanupDuplicatePieces: the read, getSheetId, and one batchUpdate per
\* duplicate row; every error is caught and logged.
CleanupDuplicatePieces(r) ==
  /\ Calling(r, "cleanupDuplicatePieces")
  /\ LET fr == local[r]
         allRows == book[1].rows
     IN \/ /\ fr.pc = ""
           /\ \E out \in {"answers", "throws"} :
                IF out = "throws" THEN Leave(r, ApiFailed(fr), "ok")
                ELSE IF allRows = <<>> THEN Leave(r, fr, "ok")
                ELSE IF DuplicateRows(allRows) = {}
                THEN Leave(r, [fr EXCEPT !.read = allRows, !.cleaned = TRUE], "ok")
                ELSE Stay(r, [fr EXCEPT !.pc = "sheetId", !.read = allRows,
                                        !.todo = SortDescending(DuplicateRows(allRows))])
           /\ UNCHANGED <<book, sheetId>>
        \/ /\ fr.pc = "sheetId"
           /\ \E g \in GetSheetId(sheetId, book, 1, sheet[1] # "missing") :
                /\ sheetId' = g.cache
                /\ IF g.threw
                   THEN Leave(r, [fr EXCEPT !.notFound = @ \/ g.notFound,
                                            !.apiFailed = @ \/ g.api], "ok")
                   ELSE Stay(r, [fr EXCEPT !.pc = "delete", !.id = g.id])
           /\ UNCHANGED book
        \/ /\ fr.pc = "delete"
           /\ \E out \in {"ok", "throws"} :
                IF out = "throws" THEN Leave(r, ApiFailed(fr), "ok") /\ UNCHANGED book
                ELSE /\ book' = DeleteRow(book, fr.id, Head(fr.todo) - 1)
                     /\ IF Len(fr.todo) = 1
                        THEN Leave(r, [fr EXCEPT !.cleaned = TRUE], "ok")
                        ELSE Stay(r, [fr EXCEPT !.todo = Tail(@)])
           /\ UNCHANGED sheetId
  /\ UNCHANGED <<queue, processing, action, sheet, route, hvars, avars, evars>>

\* addPieceIfNotExists: catch of the inner try: retries++, rethrow at
\* maxRetries, otherwise back to the top of the loop after a second.
Retry(r, fr) ==
  IF fr.retries + 1 = maxRetries THEN Leave(r, fr, "threw")
  ELSE Stay(r, [fr EXCEPT !.pc = "", !.retries = @ + 1])

\* addPieceIfNotExists: findPieceBySlug, the final check, the append.  An
\* error of the first read leaves through the outer catch; the append can
\* fail before or after the row was written.
AddPieceIfNotExists(r) ==
  /\ Calling(r, "addPieceIfNotExists")
  /\ LET fr == Forget(local[r])
         score == ScoreOf(r)
         pieceSlug == createSlug(score.composerName, score.pieceName)
     IN \/ /\ fr.pc = ""
           /\ \E out \in {"answers", "throws"} :
                IF out = "throws" THEN Leave(r, ApiFailed(fr), "threw")
                ELSE IF FindPieceBySlug(book[1].rows, pieceSlug) # 0 THEN Leave(r, fr, "ok")
                ELSE Stay(r, [fr EXCEPT !.pc = "finalCheck"])
           /\ UNCHANGED <<book, sheetId>>
        \/ /\ fr.pc = "finalCheck"
           /\ \E out \in {"answers", "throws"} :
                IF out = "throws" THEN Retry(r, ApiFailed(fr))
                ELSE IF FindPieceBySlug(book[1].rows, pieceSlug) # 0 THEN Leave(r, fr, "ok")
                ELSE Stay(r, [fr EXCEPT !.pc = "append"])
           /\ UNCHANGED <<book, sheetId>>
        \/ /\ fr.pc = "append"
           /\ \E out \in {"ok", "throws", "lost"} :
                /\ book' = IF out = "throws" THEN book
                           ELSE AppendRow(book, 1, PieceRow(score))
                /\ IF out = "ok" THEN Leave(r, [fr EXCEPT !.appends = @ + 1], "ok")
                   ELSE Retry(r, ApiFailed([fr EXCEPT !.appends = @ + 1]))
           /\ UNCHANGED sheetId
  /\ UNCHANGED <<queue, processing, action, sheet, route, hvars, avars, evars>>

\* addEditionToSheet: the append of the edition row (in the data route, after
\* removeDuplicateEdition returned).
AddEditionToSheet(r) ==
  /\ Calling(r, "addEditionToSheet")
  /\ \E out \in {"ok", "throws", "lost"} :
       /\ book' = IF out = "throws" THEN book
                  ELSE AppendRow(book, 2, EditionRow(route, ScoreOf(r)))
       /\ IF out = "ok" THEN Leave(r, local[r], "ok")
          ELSE Leave(r, ApiFailed(local[r]), "threw")
  /\ UNCHANGED <<queue, processing, action, sheet, route, sheetId, hvars, avars, evars>>

\* removeEditionFromSheet and removeDuplicateEdition: the read, getSheetId,
\* the batchUpdate; every error is rethrown.
RemoveEdition(r) ==
  /\ \/ Calling(r, "removeEditionFromSheet")
     \/ Calling(r, "removeDuplicateEdition")
  /\ LET fr == local[r]
         index == EditionIndex(route, book[2].rows, ScoreOf(r))
     IN \/ /\ fr.pc = ""
           /\ \E out \in {"answers", "throws"} :
                IF out = "throws" THEN Leave(r, ApiFailed(fr), "threw")
                ELSE IF index = -1 THEN Leave(r, fr, "ok")
                ELSE Stay(r, [fr EXCEPT !.pc = "sheetId", !.row = index])
           /\ UNCHANGED <<book, sheetId>>
        \/ /\ fr.pc = "sheetId"
           /\ \E g \in GetSheetId(sheetId, book, 2, sheet[2] # "missing") :
                /\ sheetId' = g.cache
                /\ IF g.threw
                   THEN Leave(r, [fr EXCEPT !.notFound = @ \/ g.notFound,
                                            !.apiFailed = @ \/ g.api], "threw")
                   ELSE Stay(r, [fr EXCEPT !.pc = "delete", !.id = g.id])
           /\ UNCHANGED book
        \/ /\ fr.pc = "delete"
           /\ \E out \in {"ok", "throws"} :
                IF out = "throws"
                THEN Leave(r, ApiFailed(fr), "threw") /\ UNCHANGED book
                ELSE book' = DeleteRow(book, fr.id, fr.row) /\ Leave(r, fr, "ok")
           /\ UNCHANGED sheetId
  /\ UNCHANGED <<queue, processing, action, sheet, route, hvars, avars, evars>>

\* processQueue after its await: finally { this.processing = false; if
\* (this.queue.length > 0) { await this.processQueue() } }
ProcessQueueFinally(r) ==
  /\ rpc[r].at = "finished"
  /\ IF ContinuesAfterTask(queue)
     THEN ProcessQueue(FALSE, queue, [rpc EXCEPT ![r] = At("done", 0)], qhist)
     ELSE /\ processing' = FALSE
          /\ rpc' = [rpc EXCEPT ![r] = At("done", 0)]
          /\ UNCHANGED <<queue, qhist>>
  /\ local' = [local EXCEPT ![r] = NoFrame]
  /\ UNCHANGED <<action, sheet, promise, status, route, book, sheetId, hvars, avars, evars>>

\* ------------------------------------------------------------ specification
Next ==
  \/ ParseRequest
  \/ CheckCookies
  \/ AcquireBrowser
  \/ NewPage
  \/ Navigate
  \/ ReadDirectBody
  \/ GateCheck
  \/ LocateLink
  \/ Download
  \/ Upload
  \/ Catch
  \/ Finally
  \/ ApproveClick
  \/ ReceiveProcessPdf
  \/ UpdateScore
  \/ SheetsAdd

Spec == Init /\ [][Next]_vars

\* The sheets route on its own: concurrent requests within one process.
QueueInit ==
  /\ InitPipeline /\ variant = "connect" /\ scores = InitialScores
  /\ InitSheets(Requests)
  /\ InitPages

QueueNext ==
  \E r \in Requests :
    \/ Post(r)
    \/ EnsureGet(r)
    \/ EnsureCreate(r)
    \/ EnsureHeader(r)
    \/ TaskStep(r)
    \/ ProcessQueueFinally(r)

SpecQueue == QueueInit /\ [][QueueNext]_vars

\* Every task terminates, and a continuation that is ready to run is run.
QueueProgress == \E r \in Requests : TaskStep(r) \/ ProcessQueueFinally(r)

SpecQueueLive == QueueInit /\ [][QueueNext]_vars /\ WF_vars(QueueProgress)

\* The requests whose action the routes know: the others are answered 400
\* and give the queue nothing.
QueuedRequests == {r \in Requests : ActionOf(r) # "other"}

\* The sheets route with the spreadsheet's content: either implementation,
\* on any of the initial spreadsheets.
SheetsInit ==
  /\ InitPipeline /\ variant = "connect" /\ scores = InitialScores
  /\ InitQueue(QueuedRequests)
  /\ route \in Routes
  /\ book \in InitialBooks(route)
  /\ sheet = [i \in 1..Len(SheetNames) |->
                IF book[i].rows = <<>> THEN "missing" ELSE "ready"]
  /\ sheetId = NoSheetId
  /\ InitPages

SheetsNext ==
  \E r \in QueuedRequests :
    \/ Post(r)
    \/ EnsureGet(r)
    \/ EnsureCreate(r)
    \/ EnsureHeader(r)
    \/ CleanupDuplicatePieces(r)
    \/ AddPieceIfNotExists(r)
    \/ AddEditionToSheet(r)
    \/ RemoveEdition(r)
    \/ ProcessQueueFinally(r)

SpecSheets == SheetsInit /\ [][SheetsNext]_vars

\* The review page with several handlers in flight: any sequence of clicks
\* on Previous, Next, Approve and Reject, and the settling of the requests.
PageInit ==
  /\ InitPipeline /\ variant = "connect"
  /\ InitSheets({})
  /\ InitFlights
  /\ InitEditions /\ editionPage = "confirmed"
  /\ stored = [e \in Editions |-> "unreviewed"]

PageNext ==
  \/ HandlePreviousScore
  \/ HandleNextScore
  \/ Click("approve")
  \/ Click("reject")
  \/ \E k \in Clicks :
       \/ AcquisitionSettles(k)
       \/ UpdateSettles(k)
       \/ SheetsSettles(k)

SpecPage == PageInit /\ [][PageNext]_vars

\* The editions pages and the route they call: any sequence of clicks on the
\* buttons of the editions, the requests being served concurrently.
EditionsInit ==
  /\ InitPipeline /\ variant = "connect" /\ scores = InitialScores
  /\ InitSheets({})
  /\ InitFlights
  /\ InitEditions

EditionsNext ==
  \/ \E e \in Editions, s \in {"approved", "rejected"} : HandleEditionStatusChange(e, s)
  \/ \E k \in Clicks :
       \/ PatchCommit(k)
       \/ FetchEdition(k)
       \/ SheetsSync(k)
       \/ ResponseArrives(k)
       \/ FetchPieces(k)

SpecEditions == EditionsInit /\ [][EditionsNext]_vars


\* ------------------------------------------------------------------- claims
RunEnded == pc = "done"

\* C1: every run whose handler acquired a browser handle ends with the handle
\* released, on every exit path: success, an error in any stage, or an error
\* in the calls the cleanup makes before it releases the handle.  (Runs whose
\* release call itself throws are left out: the claim does not list them.)
C1_HandleReleasedOnEveryExit ==
  (RunEnded /\ browser /\ hist.cleanupThrew # "releaseThrows")
    => handle = "released"

\* C2: a run whose download step yielded a zero-length body, on either branch,
\* never calls the object-storage put and ends with a failure.
C2_EmptyBodyNeverUploaded ==
  hist.emptyBody => /\ hist.putCalls = 0
                    /\ RunEnded => result.kind # "success"

\* C3: a run whose source response has a non-2xx status ends with the
\* response {error: "Failed to process PDF", details} and never with a success.
\* (Stated for the runs whose cleanup did not throw.)
C3_Non2xxIsFailure ==
  (RunEnded /\ response.status = 404 /\ hist.cleanupThrew = "")
    => /\ result.kind = "error"
       /\ result.error = "Failed to process PDF"

\* C4: when the source response's content-type is application/pdf the run
\* makes neither the gate check nor the link location, and the payload handed
\* to the upload is the response body.
C4_DirectPdfSkipsLocator ==
  IsPdfType(response.contentType)
    => /\ ~hist.gate
       /\ ~hist.locate
       /\ pc = "upload" => pdfBuffer = response.body

\* The patterns of the priority list that match a document.
MatchingPatterns(doc) == {k \in 1..NumPatterns : PatternMatch(k, doc).pdf}

\* The state right after the locator has run on pageDoc.
JustLocated ==
  /\ hist.locate
  /\ pc = "download" \/ (pc = "catch" /\ error = NotFoundMessage(variant))

\* C5: when the document has an anchor href that is an https .pdf URL, or when
\* more than one pattern of the list matches, the locator returns the match of
\* the earliest matching pattern, wherever the matches sit in the document.
C5_LocatorFollowsPriority ==
  (JustLocated /\ (1 \in MatchingPatterns(pageDoc)
                     \/ Cardinality(MatchingPatterns(pageDoc)) > 1))
    => downloadLink = PatternMatch(Min(MatchingPatterns(pageDoc)), pageDoc)

\* The URL the specification gives for a slug, written out.
ExpectedKey(s) == <<"Q2_2021/Q2W4/Scores/general", "/", s, ".pdf">>
ExpectedUrl(s) ==
  <<"https://", "tonebase-emails", ".s3.", "us-east-1", ".amazonaws.com/">>
    \o ExpectedKey(s)

\* C6: the URL a successful run returns is the bucket URL of
\* Q2_2021/Q2W4/Scores/general/{slug}.pdf, whatever the source URL, the branch
\* and the payload, and the object the run put is stored under exactly the key
\* that URL names.
C6_PublicUrlIsFunctionOfSlug ==
  (RunEnded /\ result.kind = "success")
    => /\ result.url = ExpectedUrl(slug)
       /\ \E o \in store : /\ o.key = SubSeq(result.url, 6, Len(result.url))
                           /\ o.body = pdfBuffer

C6_Witness ==
  /\ RunEnded /\ result.kind = "success"
  /\ slug = Slug2 /\ ~hist.direct /\ pdfBuffer = <<2>>

\* C7: after any sequence of runs, for every slug with an acknowledged put the
\* store holds exactly one object at {prefix}/{slug}.pdf, with the payload of
\* the latest acknowledged put; the store holds nothing else; and all
\* successful runs of a slug returned one URL.
C7_RerunIsIdempotent ==
  /\ \A s \in Slugs :
       /\ lastAck[s].acked
            => /\ Cardinality({o \in store : o.key = ExpectedKey(s)}) = 1
               /\ \A o \in store : o.key = ExpectedKey(s) => o.body = lastAck[s].body
       /\ Cardinality(returned[s]) <= 1
  /\ Cardinality(store) = Cardinality({s \in Slugs : lastAck[s].acked})

\* A second successful run for a slug, from another source, replaced the
\* payload of the first.
C7_Witness ==
  /\ RunEnded /\ result.kind = "success"
  /\ slug = Slug1 /\ scoreUrl = UrlB
  /\ lastAck[Slug1].replaced

\* C8: the approval issues its document-store update whether or not the
\* acquisition succeeded: with status 'approved', and with the score's
\* original URL when the endpoint answered non-OK or the call threw, with the
\* URL the pipeline returned when it succeeded.  Until the update itself fails
\* the approval is not on its error path.
C8_ApprovalFallsBackToOriginalUrl ==
  /\ approval.update # "none"
       => /\ lastUpdate.status = "approved"
          /\ lastUpdate.scoreId = scoreToProcess.id
          /\ approval.acquisition \in {"failed", "threw"}
               => lastUpdate.scoreUrl = scoreToProcess.scoreUrl
          /\ approval.acquisition = "ok"
               => result.kind = "success" /\ lastUpdate.scoreUrl = result.url
  /\ apc \in {"sheets", "idle"} /\ approval.acquisition # "none"
       => approval.update # "none"
  /\ approval.errorPath => approval.update \in {"failed", "threw"}
  /\ apc = "updating"
       => /\ ~approval.errorPath
          /\ newScoreUrl = IF approval.acquisition = "ok" THEN result.url
                           ELSE scoreToProcess.scoreUrl

C8_Witness ==
  /\ approval.acquisition = "failed"
  /\ approval.update = "ok"
  /\ lastUpdate.scoreUrl = UrlA
  /\ result.kind = "error"

\* C9: a run whose navigation to the source page timed out ends with the
\* failure response carrying the timeout error, made no put, and released its
\* browser.  (Runs whose release call itself throws are left out.)
C9_TimeoutFailsAndReleases ==
  (RunEnded /\ hist.navTimeout /\ hist.cleanupThrew # "releaseThrows")
    => /\ result.kind = "error"
       /\ result.details = TimeoutError
       /\ hist.putCalls = 0
       /\ handle = "released"

\* C10: no run ends with an exception leaving the handler; a run that does not
\* succeed returns {error, details} with a non-2xx status.
C10_NoUnhandledException ==
  RunEnded
    => /\ result.kind # "unhandled"
       /\ result.kind # "success"
            => result.error # "" /\ result.status \notin 200..299

\* C11: every invocation of the handler of route.ts 303-576 (the
\* puppeteer.connect variant) ends with one response, and that response
\* carries a public URL exactly when it is a success and an error exactly
\* when it is a failure.
C11_OneResultUrlIffSuccess ==
  (RunEnded /\ variant = "connect")
    => /\ result.kind \in {"success", "error"}
       /\ result.url # <<>> <=> result.kind = "success"
       /\ result.error # "" <=> result.kind = "error"
       /\ result.kind = "success" <=> result.status \in 200..299

\* A failed run whose cleanup threw still answers with its failure response.
C11_Witness ==
  /\ RunEnded /\ variant = "connect"
  /\ result.kind = "error" /\ result.details = NetworkError
  /\ hist.cleanupThrew = "releaseThrows"

\* C12: a request whose body was read and whose scoreUrl or slug is missing
\* or empty is answered with status 400 'Missing required parameters', and
\* the run touches nothing: no browser, no page, no navigation, no put.
C12_MissingParametersRejectedFirst ==
  (pc \notin {"idle", "parse"} /\ error = "" /\ (scoreUrl = <<>> \/ slug = ""))
    => /\ pc \in {"finally", "done"}
       /\ result = MissingParams
       /\ ~browser /\ ~page /\ handle = "none"
       /\ hist = NoHist

C12_Witness ==
  /\ RunEnded /\ slug = "" /\ scoreUrl = UrlB
  /\ result.status = 400

C12_WitnessNoUrl ==
  /\ RunEnded /\ scoreUrl = <<>> /\ slug = Slug1
  /\ result.status = 400

\* The stage of the orchestrator's state machine the handler is at: the stage
\* whose statements run next, or the terminal stage the run ended in.
Stage ==
  CASE pc \in {"idle", "parse", "cookies", "launch", "newPage"} -> "Idle"
    [] pc = "goto" -> "Fetching"
    [] pc = "directBuffer" -> "DirectPdf"
    [] pc = "gate" -> "GateCheck"
    [] pc = "locate" -> "LocatingLink"
    [] pc = "download" -> "Downloading"
    [] pc \in {"upload", "awaitPut"} -> "Uploading"
    [] pc = "catch" -> "Errored"
    [] pc \in {"finally", "done"} ->
         IF result.kind = "success" THEN "Done" ELSE "Errored"

\* The stages that may follow a stage; Done and Errored have none.
StageSuccessors(s) ==
  CASE s = "Idle" -> {"Fetching", "Errored"}
    [] s = "Fetching" -> {"DirectPdf", "GateCheck", "Errored"}
    [] s = "DirectPdf" -> {"Uploading", "Errored"}
    [] s = "GateCheck" -> {"LocatingLink", "Errored"}
    [] s = "LocatingLink" -> {"Downloading", "Errored"}
    [] s = "Downloading" -> {"Uploading", "Errored"}
    [] s = "Uploading" -> {"Done", "Errored"}
    [] OTHER -> {}

\* The handler's positions in program order.
PcOrder ==
  <<"parse", "cookies", "launch", "newPage", "goto", "directBuffer", "gate",
    "locate", "download", "upload", "awaitPut", "catch", "finally", "done">>
PcRank(p) == CHOOSE i \in 1..Len(PcOrder) : PcOrder[i] = p

\* A step of a run of the handler of route.ts 303-576, from its first
\* statement to its return.
RunStep == variant = "connect" /\ pc \notin {"idle", "done"} /\ pc' # pc

\* C14: within one run of the handler (puppeteer.connect variant) the stages
\* follow one another only in the order Fetching, then DirectPdf or
\* GateCheck and LocatingLink, then Downloading, then Uploading, then Done;
\* the handler never goes back to an earlier statement, so no stage is entered
\* twice; a navigation is started only by the source navigation and by the
\* download, the put only by the upload, each once; nothing follows Errored.
C14_StagesInOrderOnce ==
  [][RunStep
       => /\ PcRank(pc') > PcRank(pc)
          /\ Stage' # Stage => Stage' \in StageSuccessors(Stage)
          /\ hist'.navigations # hist.navigations
               => /\ pc \in {"goto", "download"}
                  /\ hist'.navigations = IF pc = "goto" THEN 1 ELSE 2
          /\ hist'.putCalls # hist.putCalls
               => pc = "upload" /\ hist'.putCalls = 1]_vars

\* A run through every stage of the HTML branch.
C14_Witness ==
  /\ RunEnded /\ variant = "connect" /\ result.kind = "success"
  /\ hist.gate /\ hist.locate /\ hist.navigations = 2 /\ hist.putCalls = 1

\* C15: when the response of the navigation to the located link has a
\* content-type other than application/pdf, the run makes no put and does
\* not end with a success.
C15_NonPdfDownloadFails ==
  (pdfResponse # NoResponse /\ ~IsPdfType(pdfResponse.contentType))
    => /\ hist.putCalls = 0
       /\ RunEnded => result.kind # "success"

\* The steps of the handler.
RunNext ==
  \/ ParseRequest \/ CheckCookies \/ AcquireBrowser \/ NewPage \/ Navigate
  \/ ReadDirectBody \/ GateCheck \/ LocateLink \/ Download \/ Upload
  \/ Catch \/ Finally

\* C16: every run ends, even when a collaborator never answers: a run that
\* has started and not yet returned always has a next step of its own (the
\* answer, or the timer that bounds the wait).  With the forward order of the
\* statements this is the finite form of "every run eventually reaches Done
\* or Errored".
C16_RunEndsWithinBudget == pc \notin {"idle", "done"} => ENABLED RunNext

\* C17: in the HTML branch of the puppeteer variants the locator runs only
\* after the gate check, and the gate check never ends the run: whether the
\* control was absent, the wait timed out or the click threw, the handler is
\* next at the locator, with no error raised.
C17_GateNeverFailsRun ==
  /\ (variant # "playwright" /\ hist.locate) => hist.gate
  /\ (hist.gate /\ ~hist.locate) => pc = "locate" /\ error = ""
  /\ pc = "gate" => ~IsPdfType(response.contentType) /\ ~hist.locate

\* The gate check threw, and the handler is at the locator.
C17_Witness ==
  /\ variant = "launch" /\ hist.gate /\ hist.gateThrew
  /\ pc = "locate" /\ error = ""

\* The locator ran to its end and returned no link.
LocatedNothing == hist.locate /\ downloadLink = NoUrl /\ error # ProtocolError

Mutating(r) == rpc[r].at \in {"create", "header", "task"}

\* C13: in every interleaving of concurrent requests to the sheets route, at
\* most one request has a spreadsheet mutation in progress, the mutations of
\* ensureSheetExists included.
C13_OneMutationAtATime == Cardinality({r \in Requests : Mutating(r)}) <= 1

IsPrefix(a, b) == Len(a) <= Len(b) /\ SubSeq(b, 1, Len(a)) = a

Running(r) == rpc[r].at = "task"
TaskOver(r) == qhist.outcome[r] # "none"

\* C19: the tasks start in the order of their add() calls, the queue holds
\* the added tasks that have not started, in that order, and while a task
\* runs every task added before it has finished, resolved or thrown.
C19_TasksStartInAddOrder ==
  /\ IsPrefix(qhist.started, qhist.added)
  /\ queue = SubSeq(qhist.added, Len(qhist.started) + 1, Len(qhist.added))
  /\ \A i \in 1..Len(qhist.added) :
       Running(qhist.added[i]) => \A j \in 1..(i - 1) : TaskOver(qhist.added[j])

\* Three tasks added out of request order; the first threw, the second runs
\* and the third waits.
C19_Witness ==
  /\ qhist.added = <<2, 3, 1>>
  /\ qhist.outcome[2] = "threw"
  /\ Running(3) /\ rpc[3].n = 2
  /\ queue = <<1>>

Settled(r) == promise[r] \in {"resolved", "rejected"}

\* What holds of the queue in every state: a task is started at most once;
\* a settled promise belongs to a task that ran once and carries that task's
\* own outcome; a pending promise belongs to a task that waits in the queue
\* or runs; a waiting task never sits beside processing = false; and while
\* processing is true some task runs or has its continuation ready.
QueueNeverStalls ==
  /\ \A r \in Requests :
       /\ qhist.runs[r] <= 1
       /\ Settled(r)
            => /\ qhist.runs[r] = 1
               /\ (promise[r] = "resolved") <=> (qhist.outcome[r] = "ok")
               /\ (promise[r] = "rejected") <=> (qhist.outcome[r] = "threw")
       /\ promise[r] = "pending"
            => \/ Running(r) /\ qhist.runs[r] = 1
               \/ \E i \in 1..Len(queue) : queue[i] = r
  /\ Len(queue) > 0 => processing
  /\ processing => \E r \in Requests : rpc[r].at \in {"task", "finished"}

\* C20: provided each task terminates, every task given to add() is run
\* exactly once and its promise settles with its own outcome, whatever the
\* earlier tasks did and whenever it was added; the queue never stalls.
C20_EveryTaskRunsOnceAndSettles ==
  /\ []QueueNeverStalls
  /\ \A r \in Requests : (promise[r] = "pending") ~> Settled(r)

\* A task added while another ran, after a task that threw, has resolved.
C20_Witness ==
  /\ qhist.added = <<1, 2, 3>>
  /\ qhist.started = <<1, 2, 3>>
  /\ promise[1] = "rejected" /\ promise[2] = "resolved" /\ promise[3] = "resolved"
  /\ status[3] = 200

\* The data rows of the Pieces sheet that hold the slug s.
PieceCount(s) ==
  Cardinality({j \in 2..Len(book[1].rows) : book[1].rows[j].a = s})

RequestedSlug == createSlug(ScoreOf(1).composerName, ScoreOf(1).pieceName)

\* The task of r has ended and no call it made to the Sheets API failed.
EndedUnhindered(r) == rpc[r].at = "finished" /\ ~local[r].apiFailed

\* C21: with concurrent 'add' requests for one composer and piece (and no
\* other request), the Pieces sheet never holds two rows with the slug
\* createSlug(composer, piece), it holds exactly one once an add has succeeded,
\* an add whose calls to the Sheets API all succeed succeeds, and a task
\* appends at most maxRetries times.
C21_ConcurrentAddsMakeOneRow ==
  (route = "score" /\ \A r \in DOMAIN action : action[r] # "remove") =>
    /\ PieceCount(RequestedSlug) <= 1
    /\ \A r \in DOMAIN status :
         /\ local[r].appends <= maxRetries
         /\ (action[r] = "add" /\ status[r] = 200) => PieceCount(RequestedSlug) = 1
         /\ EndedUnhindered(r) => status[r] = 200
         /\ PieceRow(ScoreOf(r)).a = RequestedSlug

\* Both adds were queued together; the first wrote the row, the other found
\* it.
C21_Witness ==
  /\ route = "score"
  /\ \A r \in DOMAIN action : action[r] # "remove"
  /\ qhist.added = <<1, 3>>
  /\ qhist.outcome[1] = "ok" /\ rpc[3].at = "finished" /\ status[3] = 200
  /\ local[3].appends = 0
  /\ PieceCount(RequestedSlug) = 1

\* Three appends failed: the task gives up.
C21_WitnessGivesUp ==
  /\ route = "score"
  /\ \E r \in DOMAIN status : local[r].appends = maxRetries /\ status[r] = 500

\* The header and the first occurrence of each slug, in their order.
FirstOccurrences(allRows) ==
  LET keep == {1} \cup ((2..Len(allRows)) \ DuplicateRows(allRows))
      Nth(n) == CHOOSE j \in keep : Cardinality({k \in keep : k < j}) = n - 1
  IN [n \in 1..Cardinality(keep) |-> allRows[Nth(n)]]

\* C22: when cleanupDuplicatePieces has read the Pieces sheet and has gone
\* through its deletions, the sheet holds the header and the first occurrence
\* of each slug of what was read, in their order.
C22_CleanupKeepsFirstOccurrences ==
  \A r \in DOMAIN local :
    (rpc[r] = At("task", 2) /\ action[r] = "add" /\ local[r].cleaned) =>
      book[1].rows = FirstOccurrences(local[r].read)

\* The sheet a call asks getSheetId for.
AskedSheet(f) == IF f = "cleanupDuplicatePieces" THEN 1 ELSE 2

\* C26: a deletion is issued with the id of the sheet the call named, and
\* getSheetId never reports a sheet that exists as not found.
C26_SheetIdIsOfTheNamedSheet ==
  \A r \in DOMAIN local :
    /\ (rpc[r].at = "task" /\ local[r].pc = "delete") =>
         local[r].id = book[AskedSheet(CurrentCall(r))].id
    /\ ~local[r].notFound

\* The rows of the Approved Editions sheet that hold the edition slug s.
EditionCount(s) ==
  Cardinality({j \in 2..Len(book[2].rows) : book[2].rows[j].b = s})

\* C28: in the data route, from a sheet without duplicates, the Approved
\* Editions sheet never holds two rows with one edition slug, keeps its header
\* row, and, when an action has been processed (the Sheets API having
\* answered each of its calls), holds a row with the slug exactly when that
\* action was add_edition.
C28_EditionRowIffLastActionAdds ==
  route = "data" =>
    /\ EditionCount(ScoreOf(1).slug) <= 1
    /\ sheet[2] = "ready" => book[2].rows[1] = Header(route, 2)
    /\ \A r \in DOMAIN local :
         EndedUnhindered(r) =>
           (EditionCount(ScoreOf(1).slug) = 1 <=> action[r] = "add_edition")

\* C23: an approval sends the 'add' request to /api/sheets exactly once,
\* after the acquisition and the update whatever their outcomes, and it
\* reports an error (the banner, the final throw) according to the update
\* alone, not to the outcome of that request.
C23_SheetsAddOncePerApproval ==
  /\ apc \in {"acquiring", "updating", "sheets"} => approval.sheets = 0
  /\ (apc = "idle" /\ approval.acquisition # "none") =>
       /\ approval.sheets = 1
       /\ approval.threw <=> approval.update = "failed"
       /\ approval.errorPath <=> approval.update # "ok"

\* The acquisition failed, the update went through, the request to
\* /api/sheets threw: no error is reported.
C23_Witness ==
  /\ apc = "idle" /\ approval.acquisition = "failed" /\ approval.update = "ok"
  /\ approval.sheets = 1 /\ approval.sheetsOut = "threw"
  /\ ~approval.threw /\ uiError = ""

\* The number of places of a list that hold x, and the elements of a list.
Occurrences(list, x) == Cardinality({j \in 1..Len(list) : list[j] = x})
Range(list) == {list[j] : j \in 1..Len(list)}

\* C27: in the review page, after any sequence of previous, next, approve and
\* reject actions, a non-empty score list has a current score:
\* 0 <= currentScoreIndex < scores.length.
C27_IndexWithinNonEmptyList == Len(scores) > 0 => HasCurrentScore

\* The scores that clicks other than k took out of the list.
TakenByOthers(k) == {flights[j].score : j \in {i \in Clicks : i # k /\ flights[i].kind # ""}}

\* C25 as stated: after the restore of a failed approval the list holds the
\* restored score exactly once and every other score it held before the click.
C25_RestoreKeepsAllHeldBefore ==
  \A k \in Clicks :
    flights[k].restored =>
      /\ Occurrences(scores, flights[k].score) = 1
      /\ Range(flights[k].held) \subseteq Range(scores)

\* C25: after the restore of a failed approval the list holds the restored
\* score exactly once and every other score it held before the click, except
\* the scores that another approve or reject click removed while the approval
\* was in flight.
C25_RestoreKeepsUnclickedScores ==
  \A k \in Clicks :
    flights[k].restored =>
      /\ Occurrences(scores, flights[k].score) = 1
      /\ Range(flights[k].held) \ TakenByOthers(k) \subseteq Range(scores)

\* An approval failed and was restored after a later click took another score,
\* and a score that nobody clicked is still listed.
C25_Witness ==
  \E k, j \in Clicks :
    /\ k < j
    /\ flights[k].restored
    /\ flights[j].kind = "reject"
    /\ flights[j].score \in Range(flights[k].held)
    /\ Len(scores) = 2
    /\ Range(scores) \ TakenByOthers(k) # {flights[k].score}

\* The request of a handler is on its way or being served.
InFlight(c) == c.at \in {"commit", "fetch", "sheets", "responded"}

\* C24: no two status-change requests for one edition are in flight together.
C24_OneChangeInFlightPerEdition ==
  \A j, k \in Clicks :
    j # k /\ InFlight(changes[j]) /\ InFlight(changes[k])
      => changes[j].edition # changes[k].edition

\* C29: a request to PATCH /api/editions that is answered with an error
\* leaves the edition with the status it had when the request started (no
\* other request having changed it meanwhile).
C29_ErrorResponseLeavesStatus ==
  \A k \in Clicks :
    changes[k].response >= 400 /\ ~changes[k].disturbed
      => changes[k].after = changes[k].before

====
